---------------------------- MODULE Spec2Model ----------------------------
(***************************************************************************)
(* Model of sh/generate-icons.py: one source image is rendered into six    *)
(* square PNG icons.  resize_with_padding is modelled with the arithmetic  *)
(* Python performs: int / int and int * float are IEEE-754 binary64        *)
(* operations (53-bit significand, round to nearest, ties to even) and     *)
(* int() truncates.  A float is a record [m, e]: m is the significand as a *)
(* sequence of limbs, most significant first, and the value is m * 2^e.    *)
(***************************************************************************)
EXTENDS Integers, Sequences, FiniteSets, TLC

\* ------------------------------------------------------------------------
\* Bounds of the model
\* ------------------------------------------------------------------------
MaxDim == 8
MaxPixDim == 3

\* ------------------------------------------------------------------------
\* Program constants
\* ------------------------------------------------------------------------
SIZES == <<16, 32, 48, 64, 128, 256>>

\* A binary64 significand has 53 bits: one leading limb of LimbBits + 1 bits
\* (the leading bit is 1) and three more limbs of LimbBits bits each.
LimbBits == 13

NumLimbs == 4

\* ------------------------------------------------------------------------
\* binary64 arithmetic on positive operands
\* ------------------------------------------------------------------------
RECURSIVE Pow2(_)
Pow2(n) == IF n = 0 THEN 1 ELSE 2 * Pow2(n - 1)

Base == Pow2(LimbBits)

MantBits == NumLimbs * LimbBits + 1

RECURSIVE BitLen(_)
BitLen(n) == IF n = 0 THEN 0 ELSE 1 + BitLen(n \div 2)

\* m + 1, limb by limb from the last; the leading limb may reach 2 * Base
RECURSIVE IncLimbs(_)
IncLimbs(m) ==
    LET n == Len(m)
    IN  IF n = 1 THEN <<m[1] + 1>>
        ELSE IF m[n] + 1 < Base THEN [m EXCEPT ![n] = m[n] + 1]
        ELSE Append(IncLimbs(SubSeq(m, 1, n - 1)), 0)

\* Round to nearest, ties to even: m holds the MantBits leading bits of the
\* exact result, e the exponent of m's last bit, and rest compares what was
\* cut off with half a unit in the last place ("lt", "eq", "gt").
RoundNearestEven(m, e, rest) ==
    LET up  == rest = "gt" \/ (rest = "eq" /\ m[Len(m)] % 2 = 1)
        inc == IncLimbs(m)
    IN  IF ~up THEN [m |-> m, e |-> e]
        ELSE IF inc[1] = 2 * Base
             THEN [m |-> [inc EXCEPT ![1] = Base], e |-> e + 1]
             ELSE [m |-> inc, e |-> e]

\* The quotient a / b as num / den * 2^k with den <= num < 2 * den
RECURSIVE Normalise(_, _, _)
Normalise(num, den, k) ==
    IF num < den THEN Normalise(2 * num, den, k - 1)
    ELSE IF num >= 2 * den THEN Normalise(num, 2 * den, k + 1)
    ELSE [num |-> num, den |-> den, k |-> k]

\* n limbs of r / den by long division (r < 2 * den), and the remainder left
RECURSIVE DivLimbs(_, _, _)
DivLimbs(r, den, n) ==
    IF n = 0 THEN <<>>
    ELSE <<(r * Base) \div den>> \o DivLimbs((r * Base) % den, den, n - 1)

RECURSIVE DivRem(_, _, _)
DivRem(r, den, n) ==
    IF n = 0 THEN r ELSE DivRem((r * Base) % den, den, n - 1)

\* a / b for positive ints a, b: Python's true division, correctly rounded
TrueDiv(a, b) ==
    LET nz   == Normalise(a, b, 0)
        m    == DivLimbs(nz.num, nz.den, NumLimbs)
        r    == DivRem(nz.num, nz.den, NumLimbs)
        rest == IF 2 * r > nz.den THEN "gt"
                ELSE IF 2 * r = nz.den THEN "eq" ELSE "lt"
    IN  RoundNearestEven(m, nz.k - (MantBits - 1), rest)

\* m * n (n a positive int), exactly; the carries gather in the leading limb
RECURSIVE MulLimbs(_, _, _)
MulLimbs(m, n, carry) ==
    LET k == Len(m)
        t == m[k] * n + carry
    IN  IF k = 1 THEN <<t>>
        ELSE Append(MulLimbs(SubSeq(m, 1, k - 1), n, t \div Base), t % Base)

\* p shifted right by s bits (s <= LimbBits)
ShiftRight(p, s) ==
    [i \in 1..Len(p) |->
        IF i = 1 THEN p[1] \div Pow2(s)
        ELSE (p[i - 1] % Pow2(s)) * Pow2(LimbBits - s) + p[i] \div Pow2(s)]

\* n * f for a positive int n and a float f: n converts to a float exactly,
\* the product is rounded once
IntMulFloat(n, f) ==
    LET p    == MulLimbs(f.m, n, 0)
        s    == BitLen(p[1]) - (LimbBits + 1)
        cut  == p[Len(p)] % Pow2(s)
        half == Pow2(s - 1)
        rest == IF s = 0 \/ cut < half THEN "lt"
                ELSE IF cut > half THEN "gt" ELSE "eq"
    IN  RoundNearestEven(ShiftRight(p, s), f.e + s, rest)

\* f < g for two floats
RECURSIVE LimbsLess(_, _)
LimbsLess(x, y) ==
    IF x = <<>> THEN FALSE
    ELSE IF x[1] # y[1] THEN x[1] < y[1]
    ELSE LimbsLess(Tail(x), Tail(y))

FloatLess(f, g) == f.e < g.e \/ (f.e = g.e /\ LimbsLess(f.m, g.m))

\* Python's min(f, g): g when g < f, else f
FloatMin(f, g) == IF FloatLess(g, f) THEN g ELSE f

\* The integer part of m / 2^k (the leading limb has LimbBits + 1 bits)
RECURSIVE LimbsFloor(_, _)
LimbsFloor(m, k) ==
    LET n == Len(m)
    IN  IF n = 1 THEN (IF k > LimbBits THEN 0 ELSE m[1] \div Pow2(k))
        ELSE IF k >= LimbBits THEN LimbsFloor(SubSeq(m, 1, n - 1), k - LimbBits)
        ELSE LimbsFloor(SubSeq(m, 1, n - 1), 0) * Pow2(LimbBits - k)
             + m[n] \div Pow2(k)

\* int(f): truncation toward zero
FloatToInt(f) ==
    IF f.e >= 0 THEN LimbsFloor(f.m, 0) * Pow2(f.e) ELSE LimbsFloor(f.m, 0 - f.e)

\* ------------------------------------------------------------------------
\* Images.  An image is [w, h, mode, data, fill, paints]: fill is the alpha
\* of every pixel no paint covers and paints the regions pasted onto it, in
\* order.  A source image is uniform (no paints): its alpha is 255 when the
\* mode has no alpha channel.  data is "truncated" when the file's pixel data
\* cannot be decoded, which shows at the first load of the lazily opened file.
\* ------------------------------------------------------------------------
NoImage == [w |-> 0, h |-> 0, mode |-> "none", data |-> "none", fill |-> 0,
            paints |-> <<>>]

\* The alpha of pixel (x, y) of image: the last paint covering it, else fill
RECURSIVE PaintAlpha(_, _, _, _)
PaintAlpha(paints, fill, x, y) ==
    IF paints = <<>> THEN fill
    ELSE LET p == paints[Len(paints)]
         IN  IF /\ p.x <= x /\ x < p.x + p.w
                /\ p.y <= y /\ y < p.y + p.h
             THEN p.alpha
             ELSE PaintAlpha(SubSeq(paints, 1, Len(paints) - 1), fill, x, y)

PixelAlpha(image, x, y) == PaintAlpha(image.paints, image.fill, x, y)

\* Faulty variant of Convert: the receiver itself is converted
ConvertInPlace(image, mode) ==
    [err |-> IF image.data = "truncated" THEN "OSError" ELSE "none",
     obj |-> [image EXCEPT !.mode = mode],
     res |-> [image EXCEPT !.mode = mode]]

\* image.convert(mode): a new image; the receiver (obj) is left as it was.
\* Decoding a truncated file raises OSError.
Convert(image, mode) ==
    [err |-> IF image.data = "truncated" THEN "OSError" ELSE "none",
     obj |-> image,
     res |-> [image EXCEPT !.mode = mode]]

\* image.resize((w, h), LANCZOS): a new image of that size, or ValueError
\* when a side is below 1.  Resampling a uniform image leaves it uniform.
Resize(image, w, h) ==
    [err |-> IF w < 1 \/ h < 1 THEN "ValueError" ELSE "none",
     res |-> [image EXCEPT !.w = w, !.h = h]]

\* Faulty variant of NewImage: the background's alpha is left at 255
NewImageOpaque(mode, w, h, alpha) ==
    [w |-> w, h |-> h, mode |-> mode, data |-> "ok", fill |-> 255,
     paints |-> <<>>]

\* Image.new("RGBA", (w, h), (0, 0, 0, alpha))
NewImage(mode, w, h, alpha) ==
    [w |-> w, h |-> h, mode |-> mode, data |-> "ok", fill |-> alpha,
     paints |-> <<>>]

\* dst.paste(src, (x, y), mask): inside src's box each band, alpha included,
\* becomes the blend of dst and src weighted by the mask's alpha
Paste(dst, src, x, y, mask) ==
    [dst EXCEPT !.paints = Append(@,
        [x |-> x, y |-> y, w |-> src.w, h |-> src.h,
         alpha |-> (src.fill * mask.fill
                    + PixelAlpha(dst, x, y) * (255 - mask.fill)) \div 255])]

\* ------------------------------------------------------------------------
\* resize_with_padding(img, target_size)
\* ------------------------------------------------------------------------
\* ratio = min(target_size / img.width, target_size / img.height)
Ratio(target_size, width, height) ==
    FloatMin(TrueDiv(target_size, width), TrueDiv(target_size, height))

\* int(length * ratio)
ScaledLength(length, ratio) == FloatToInt(IntMulFloat(length, ratio))

\* Faulty variant of CanvasSize: the background takes the scaled size
CanvasSizeFit(target_size, new_width, new_height) == <<new_width, new_height>>

\* the size of the square background
CanvasSize(target_size, new_width, new_height) == <<target_size, target_size>>

\* Faulty variant of CenterOffset: the slack is not halved
CenterOffsetNoHalving(target_size, new_length) == target_size - new_length

\* (target_size - new_length) // 2
CenterOffset(target_size, new_length) == (target_size - new_length) \div 2

\* The call's outcome: err ("none" when it returns), src (the caller's image
\* object after the call), the locals, and ret (the image returned).
ResizeWithPadding(image, target_size) ==
    LET conv       == Convert(image, "RGBA")
        rgba       == conv.res
        ratio      == Ratio(target_size, rgba.w, rgba.h)
        new_width  == ScaledLength(rgba.w, ratio)
        new_height == ScaledLength(rgba.h, ratio)
        resized    == Resize(rgba, new_width, new_height)
        size       == CanvasSize(target_size, new_width, new_height)
        new_img    == NewImage("RGBA", size[1], size[2], 0)
        x_offset   == CenterOffset(target_size, new_width)
        y_offset   == CenterOffset(target_size, new_height)
    IN  IF conv.err # "none"
        THEN [err |-> conv.err, src |-> conv.obj,
              new_width |-> 0, new_height |-> 0,
              x_offset |-> 0, y_offset |-> 0, ret |-> NoImage]
        ELSE IF resized.err # "none"
        THEN [err |-> resized.err, src |-> conv.obj,
              new_width |-> new_width, new_height |-> new_height,
              x_offset |-> 0, y_offset |-> 0, ret |-> NoImage]
        ELSE [err |-> "none", src |-> conv.obj,
              new_width |-> new_width, new_height |-> new_height,
              x_offset |-> x_offset, y_offset |-> y_offset,
              ret |-> Paste(new_img, resized.res, x_offset, y_offset,
                            resized.res)]

\* ------------------------------------------------------------------------
\* The run: __main__ and generate_icons
\* ------------------------------------------------------------------------
\* Sides of the source images tried: every side up to MaxDim, and sides
\* larger than some or all of the icon sizes
SrcDims == (1..MaxDim) \cup {49, 50, 100}

PixDims == (1..MaxPixDim) \cup {50, 100}

Formats == {<<"RGB", 255>>, <<"RGBA", 255>>, <<"RGBA", 0>>}

\* What lies at src_path
NoFile == [kind |-> "missing", w |-> 0, h |-> 0, mode |-> "none", alpha |-> 0]

ImageFiles(dims) ==
    {[kind |-> "image", w |-> w, h |-> h, mode |-> f[1], alpha |-> f[2]] :
        w \in dims, h \in dims, f \in Formats}

BadFiles ==
    {[kind |-> k, w |-> 1, h |-> 1, mode |-> "RGB", alpha |-> 255] :
        k \in {"unidentified", "truncated"}}

\* Image.open(src_path) on a file whose header identifies
OpenedImage(file) ==
    [w |-> file.w, h |-> file.h, mode |-> file.mode,
     data |-> IF file.kind = "truncated" THEN "truncated" ELSE "ok",
     fill |-> file.alpha, paints |-> <<>>]

VARIABLES
    argc,       \* len(sys.argv)
    srcFile,    \* the file at sys.argv[1]
    pc,         \* where the run is
    madeDirs,   \* os.makedirs(out_dir) has created the output directory
    img,        \* the image Image.open returned
    imgOpen,    \* inside the with block
    idx,        \* position of size in SIZES
    renders,    \* calls of resize_with_padding so far
    scaled,     \* new_width, new_height of the last call
    offset,     \* x_offset, y_offset of the last call
    square,     \* the image the last call returned
    files,      \* the icon files written
    out,        \* lines printed
    err,        \* the exception that ended the run
    exitCode    \* the process's exit code

vars == <<argc, srcFile, pc, madeDirs, img, imgOpen, idx, renders, scaled,
          offset, square, files, out, err, exitCode>>

\* output_dir = sys.argv[2] if len(sys.argv) > 2 else "icons"
OutDir == IF argc > 2 THEN "argv2" ELSE "icons"

Line(kind, size) == [kind |-> kind, size |-> size]

InitWith(sources) ==
    /\ argc \in 1..3
    /\ srcFile \in {NoFile} \cup sources \cup BadFiles
    /\ argc < 2 => srcFile = NoFile
    /\ pc = "main"
    /\ madeDirs = FALSE
    /\ img = NoImage
    /\ imgOpen = FALSE
    /\ idx = 1
    /\ renders = 0
    /\ scaled = [w |-> 0, h |-> 0]
    /\ offset = [x |-> 0, y |-> 0]
    /\ square = NoImage
    /\ files = {}
    /\ out = <<>>
    /\ err = "none"
    /\ exitCode = 0

Init == InitWith(ImageFiles(SrcDims))

InitPixels == InitWith(ImageFiles(PixDims))

\* sys.exit(1), or an exception nothing catches
Exit(code, exception) ==
    /\ pc' = "exited"
    /\ exitCode' = code
    /\ err' = exception
    /\ imgOpen' = FALSE

\* if len(sys.argv) < 2: print usage; sys.exit(1)
MainUsage ==
    /\ pc = "main"
    /\ argc < 2
    /\ out' = Append(out, Line("usage", 0))
    /\ Exit(1, "SystemExit")
    /\ UNCHANGED <<argc, srcFile, madeDirs, img, idx, renders, scaled,
                   offset, square, files>>

\* generate_icons(source, output_dir)
MainCall ==
    /\ pc = "main"
    /\ argc >= 2
    /\ pc' = "generate_icons"
    /\ UNCHANGED <<argc, srcFile, madeDirs, img, imgOpen, idx, renders,
                   scaled, offset, square, files, out, err, exitCode>>

\* Faulty variant of SourceNotFound: the message is printed, the run goes on
SourceNotFoundNoExit ==
    /\ pc = "generate_icons"
    /\ srcFile.kind = "missing"
    /\ out' = Append(out, Line("notfound", 0))
    /\ pc' = "makedirs"
    /\ UNCHANGED <<argc, srcFile, madeDirs, img, imgOpen, idx, renders,
                   scaled, offset, square, files, err, exitCode>>

\* if not os.path.exists(src_path): print; sys.exit(1)
SourceNotFound ==
    /\ pc = "generate_icons"
    /\ srcFile.kind = "missing"
    /\ out' = Append(out, Line("notfound", 0))
    /\ Exit(1, "SystemExit")
    /\ UNCHANGED <<argc, srcFile, madeDirs, img, idx, renders, scaled,
                   offset, square, files>>

SourceFound ==
    /\ pc = "generate_icons"
    /\ srcFile.kind # "missing"
    /\ pc' = "makedirs"
    /\ UNCHANGED <<argc, srcFile, madeDirs, img, imgOpen, idx, renders,
                   scaled, offset, square, files, out, err, exitCode>>

\* os.makedirs(out_dir, exist_ok=True)
MakeDirs ==
    /\ pc = "makedirs"
    /\ madeDirs' = TRUE
    /\ pc' = "open"
    /\ UNCHANGED <<argc, srcFile, img, imgOpen, idx, renders, scaled,
                   offset, square, files, out, err, exitCode>>

\* ... which the file system may refuse
MakeDirsFail ==
    /\ pc = "makedirs"
    /\ Exit(1, "OSError")
    /\ UNCHANGED <<argc, srcFile, madeDirs, img, idx, renders, scaled,
                   offset, square, files, out>>

\* with Image.open(src_path) as img
OpenImage ==
    /\ pc = "open"
    /\ srcFile.kind \in {"image", "truncated"}
    /\ img' = OpenedImage(srcFile)
    /\ imgOpen' = TRUE
    /\ pc' = "render"
    /\ UNCHANGED <<argc, srcFile, madeDirs, idx, renders, scaled, offset,
                   square, files, out, err, exitCode>>

OpenFail ==
    /\ pc = "open"
    /\ srcFile.kind \notin {"image", "truncated"}
    /\ Exit(1, "UnidentifiedImageError")
    /\ UNCHANGED <<argc, srcFile, madeDirs, img, idx, renders, scaled,
                   offset, square, files, out>>

\* square = resize_with_padding(img, size)
Render ==
    /\ pc = "render"
    /\ LET r == ResizeWithPadding(img, SIZES[idx])
       IN  /\ img' = r.src
           /\ renders' = renders + 1
           /\ scaled' = [w |-> r.new_width, h |-> r.new_height]
           /\ offset' = [x |-> r.x_offset, y |-> r.y_offset]
           /\ IF r.err = "none"
              THEN /\ square' = r.ret
                   /\ pc' = "save"
                   /\ UNCHANGED <<imgOpen, err, exitCode>>
              ELSE /\ Exit(1, r.err)
                   /\ UNCHANGED square
    /\ UNCHANGED <<argc, srcFile, madeDirs, idx, files, out>>

\* square.save(output_path, format="PNG")
Save ==
    /\ pc = "save"
    /\ files' = files \cup {[dir |-> OutDir, size |-> SIZES[idx],
                             w |-> square.w, h |-> square.h]}
    /\ pc' = "print"
    /\ UNCHANGED <<argc, srcFile, madeDirs, img, imgOpen, idx, renders,
                   scaled, offset, square, out, err, exitCode>>

\* The loop's next size, or the end of the with block
NextSize ==
    /\ idx' = idx + 1
    /\ IF idx < Len(SIZES)
       THEN pc' = "render" /\ UNCHANGED imgOpen
       ELSE pc' = "success" /\ imgOpen' = FALSE

\* Faulty variant of SaveFail: the error is swallowed, the loop goes on
SaveFailSkip ==
    /\ pc = "save"
    /\ NextSize
    /\ UNCHANGED <<argc, srcFile, madeDirs, img, renders, scaled, offset,
                   square, files, out, err, exitCode>>

\* ... which the file system may refuse; no complete file is left
SaveFail ==
    /\ pc = "save"
    /\ Exit(1, "OSError")
    /\ UNCHANGED <<argc, srcFile, madeDirs, img, idx, renders, scaled,
                   offset, square, files, out>>

\* print(f"Generated {output_path}")
PrintGenerated ==
    /\ pc = "print"
    /\ out' = Append(out, Line("generated", SIZES[idx]))
    /\ NextSize
    /\ UNCHANGED <<argc, srcFile, madeDirs, img, renders, scaled, offset,
                   square, files, err, exitCode>>

\* print("All icons generated successfully!"), and the script ends
PrintSuccess ==
    /\ pc = "success"
    /\ out' = Append(out, Line("success", 0))
    /\ pc' = "exited"
    /\ UNCHANGED <<argc, srcFile, madeDirs, img, imgOpen, idx, renders,
                   scaled, offset, square, files, err, exitCode>>

Next ==
    \/ MainUsage
    \/ MainCall
    \/ SourceNotFound
    \/ SourceFound
    \/ MakeDirs
    \/ MakeDirsFail
    \/ OpenImage
    \/ OpenFail
    \/ Render
    \/ Save
    \/ SaveFail
    \/ PrintGenerated
    \/ PrintSuccess

Spec == Init /\ [][Next]_vars

SpecPixels == InitPixels /\ [][Next]_vars

\* ------------------------------------------------------------------------
\* Properties
\* ------------------------------------------------------------------------
Size == SIZES[idx]

AllSizes == {SIZES[i] : i \in 1..Len(SIZES)}

WrittenSizes == {f.size : f \in files}

Abs(n) == IF n < 0 THEN 0 - n ELSE n

Max(a, b) == IF a >= b THEN a ELSE b

\* The call of resize_with_padding for SIZES[idx] has returned
Rendered == pc \in {"save", "print"}

\* C1: whatever the source's aspect ratio, the image resize_with_padding
\* returns for target size S is exactly S wide and S high, and so is every
\* icon file written from it.
C1_IconIsSquare ==
    /\ Rendered => square.w = Size /\ square.h = Size
    /\ \A f \in files : f.w = f.size /\ f.h = f.size

C1_Witness ==
    /\ pc = "save"
    /\ img.w = 100 /\ img.h = 50
    /\ scaled.w # scaled.h
    /\ square.w = Size /\ square.h = Size

\* C2: for a decodable source with positive sides, resize_with_padding never
\* raises: the scaled width and height it hands to resize are both at
\* least 1.
C2_RenderNeverRaises ==
    (renders > 0 /\ img.data = "ok") =>
        /\ scaled.w >= 1
        /\ scaled.h >= 1
        /\ err # "ValueError"

\* C3: for a square source the scaled content is exactly S by S and pasted
\* at (0, 0): no padding on any side.
C3_SquareFillsCanvas ==
    (Rendered /\ img.w = img.h) =>
        /\ scaled = [w |-> Size, h |-> Size]
        /\ offset = [x |-> 0, y |-> 0]

\* C4: for a non-square source the scaled content lies wholly inside the
\* S by S canvas, and on each axis the two margins are non-negative and
\* differ by at most one pixel.
C4_CentredInsideCanvas ==
    (Rendered /\ img.w # img.h) =>
        LET left   == offset.x
            right  == Size - offset.x - scaled.w
            top    == offset.y
            bottom == Size - offset.y - scaled.h
        IN  /\ left >= 0 /\ right >= 0 /\ top >= 0 /\ bottom >= 0
            /\ offset.x + scaled.w <= Size
            /\ offset.y + scaled.h <= Size
            /\ Abs(left - right) <= 1
            /\ Abs(top - bottom) <= 1

C4_Witness ==
    /\ pc = "save"
    /\ img.w # img.h
    /\ offset.y > 0
    /\ (Size - offset.y - scaled.h) - offset.y = 1

\* C5: with r = min(S/W, S/H) the scaled width is the truncation of W * r
\* and the scaled height the truncation of H * r: never larger than the
\* exact product and less than one pixel below it.  (W * r = W * S / M for
\* M the longer side, so the comparison is made on integers.)
C5_TruncationOfExactProduct ==
    Rendered =>
        LET M == Max(img.w, img.h)
        IN  /\ scaled.w * M <= img.w * Size
            /\ img.w * Size < (scaled.w + 1) * M
            /\ scaled.h * M <= img.h * Size
            /\ img.h * Size < (scaled.h + 1) * M

\* C6: every pixel of the returned image outside the pasted footprint is
\* fully transparent; a 100 x 50 opaque source at target size 64 is scaled
\* to 64 x 32 and placed at x-offset 0, y-offset 16, so that rows 0-15 and
\* 48-63 are fully transparent.
C6_PaddingIsTransparent ==
    pc = "save" =>
        /\ \A x \in 0..(Size - 1) : \A y \in 0..(Size - 1) :
              ~(/\ offset.x <= x /\ x < offset.x + scaled.w
                /\ offset.y <= y /\ y < offset.y + scaled.h)
              => PixelAlpha(square, x, y) = 0
        /\ (img.w = 100 /\ img.h = 50 /\ img.fill = 255 /\ Size = 64) =>
              /\ scaled = [w |-> 64, h |-> 32]
              /\ offset = [x |-> 0, y |-> 16]
              /\ \A x \in 0..63 : \A y \in (0..15) \cup (48..63) :
                    PixelAlpha(square, x, y) = 0

C6_Witness ==
    /\ pc = "save"
    /\ img.w = 100 /\ img.h = 50 /\ img.fill = 255 /\ Size = 64
    /\ PixelAlpha(square, 0, 15) = 0
    /\ PixelAlpha(square, 0, 16) = 255
    /\ PixelAlpha(square, 63, 47) = 255
    /\ PixelAlpha(square, 63, 48) = 0

\* C7: with no positional argument, or a source path that does not exist,
\* the run exits with code 1 before any other effect: no output directory
\* is created, the source is not opened, nothing is rendered and no icon
\* file is written.
C7_ExitBeforeAnyEffect ==
    (argc < 2 \/ srcFile.kind = "missing") =>
        /\ pc \in {"main", "generate_icons", "exited"}
        /\ pc = "exited" => exitCode = 1
        /\ ~madeDirs
        /\ img = NoImage /\ ~imgOpen
        /\ renders = 0
        /\ files = {}

C7_Witness ==
    /\ pc = "exited"
    /\ argc >= 2
    /\ srcFile.kind = "missing"
    /\ exitCode = 1
    /\ out = <<Line("notfound", 0)>>

\* C8 as stated: no run terminates having written some but not all of the
\* six icon files.
C8_AllOrNothing ==
    pc = "exited" =>
        \/ exitCode = 0 /\ WrittenSizes = AllSizes
        \/ exitCode # 0 /\ files = {}

\* C8 as amended: a run ends either with all six icon files written, exit
\* code 0 and the success line, or aborted by its first error with exit
\* code 1 and no success line, and then the files written are exactly the
\* icons of the sizes before the one whose render or save failed.
C8_AllOrPrefix ==
    pc = "exited" =>
        \/ /\ exitCode = 0
           /\ err = "none"
           /\ WrittenSizes = AllSizes
           /\ out # <<>> /\ out[Len(out)].kind = "success"
        \/ /\ exitCode = 1
           /\ err # "none"
           /\ idx <= Len(SIZES)
           /\ WrittenSizes = {SIZES[j] : j \in 1..(idx - 1)}
           /\ \A i \in 1..Len(out) : out[i].kind # "success"

C8_Witness ==
    /\ pc = "exited"
    /\ exitCode = 1
    /\ err = "OSError"
    /\ WrittenSizes = {16, 32}

\* C9: on a run with an existing, decodable source (and a file system that
\* takes the writes) exactly one file icon-<S>.png is written into the output
\* directory for each of the six sizes and no other; each confirmation line
\* is printed after its file is written, the success line after all six
\* files and confirmation lines, and the process exits with code 0.
C9_SixFilesThenSuccess ==
    /\ \A f \in files : f.dir = OutDir /\ f.size \in AllSizes
    /\ Cardinality(files) = Cardinality(WrittenSizes)
    /\ \A i \in 1..Len(out) :
          /\ out[i].kind = "generated" => out[i].size \in WrittenSizes
          /\ out[i].kind = "success" =>
                /\ WrittenSizes = AllSizes
                /\ i = Len(SIZES) + 1
                /\ \A j \in 1..Len(SIZES) : out[j] = Line("generated", SIZES[j])
    /\ (pc = "exited" /\ srcFile.kind = "image" /\ err # "OSError") =>
          /\ exitCode = 0
          /\ WrittenSizes = AllSizes
          /\ out # <<>> /\ out[Len(out)].kind = "success"

\* C10: resize_with_padding never changes the source: after any number of
\* render calls the shared image is as Image.open returned it, so the icon
\* for a size is the render of the image as loaded, whatever was rendered
\* before it.
C10_SourceUnchanged ==
    /\ img # NoImage => img = OpenedImage(srcFile)
    /\ Rendered =>
          square = ResizeWithPadding(OpenedImage(srcFile), Size).ret

C10_Witness ==
    /\ pc = "save"
    /\ idx = Len(SIZES)
    /\ renders = Len(SIZES)
    /\ img.mode = "RGB"
    /\ square.mode = "RGBA"

=============================================================================
